---- MODULE Spec2Model ----
(***************************************************************************)
(* Model of routes/blog.js: the Express router of the blog backend.        *)
(*                                                                         *)
(* State: the Blog collection, the (read-only) Category collection, the    *)
(* request currently being handled with the position of its handler, the   *)
(* calls the handler has made to the Asset Uploader (cloudinary.uploader), *)
(* and the last response sent.                                             *)
(*                                                                         *)
(* Handlers that await the Asset Uploader (POST /, DELETE /:id) are split  *)
(* at those awaits; the other handlers only await the document store and   *)
(* are one action each.  Requests are handled one after the other: the     *)
(* handlers share nothing but the store.  The document store is taken to   *)
(* be reliable (save, find and deleteOne do not fail); the Asset Uploader  *)
(* may fail any call.                                                      *)
(***************************************************************************)
EXTENDS Integers, Sequences, FiniteSets, TLC

VARIABLES blogs, clock, req, uploadLog, destroyLog, res

vars == <<blogs, clock, req, uploadLog, destroyLog, res>>

(***************************************************************************)
(* Bounds                                                                  *)
(***************************************************************************)
MaxBlogs == 1        \* blogs ever created in one behaviour of Spec
MaxListed == 3       \* blogs ever created in one behaviour of SpecQuery
MaxSections == 2     \* section descriptors / section image files per request
MaxPage == 3         \* largest ?page= asked for
MaxLimit == 2        \* largest ?limit= asked for

(***************************************************************************)
(* Values                                                                  *)
(***************************************************************************)
\* req.body.<field> of a field the client did not send
ABSENT == "undefined"

\* JavaScript falsiness of a text field: undefined or the empty string
Falsy(v) == v \in {ABSENT, ""}

\* `a || b` on text fields
OrElse(a, b) == IF Falsy(a) THEN b ELSE a

\* An asset URL https://<host>/<folder>/<name>.<ext>; name 0 with an empty
\* folder stands for "no URL" (undefined section_img)
NoUrl == [folder |-> "", name |-> 0]

\* secure_url of cloudinary.uploader.upload(path, {folder}): one asset per file
UploadUrl(folder, path) == [folder |-> folder, name |-> path]

\* A URL the client names itself in a section descriptor
ExternalUrl == [folder |-> "external", name |-> 1]

\* path of req.files.mainImage[0]
MainImagePath == 100

\* path of req.files.section_images[index] (index zero-based)
SectionImagePath(index) == index + 1

\* index of the main image in the upload log; sections are 0, 1, ...
MainIdx == 0 - 1

(***************************************************************************)
(* Category collection (models/Category): read-only for this router        *)
(***************************************************************************)
Categories ==
    { [id |-> "c1", slug |-> "tech", status |-> "published"],
      [id |-> "c2", slug |-> "news", status |-> "draft"] }

\* mongoose.Types.ObjectId.isValid
ObjectIdIsValid(id) == id \in {"c1", "c2", "c9"}

NoCategory == [id |-> "", slug |-> "", status |-> ""]

\* Category.findById: a malformed id makes the query reject (CastError)
CategoryFindById(id) ==
    IF ~ObjectIdIsValid(id) THEN [kind |-> "throw", doc |-> NoCategory]
    ELSE IF \E c \in Categories : c.id = id
         THEN [kind |-> "doc", doc |-> CHOOSE c \in Categories : c.id = id]
         ELSE [kind |-> "null", doc |-> NoCategory]

\* Category.findOne({slug, status: "published"})
CategoryFindPublishedBySlug(slug) ==
    IF \E c \in Categories : c.slug = slug /\ c.status = "published"
    THEN [kind |-> "doc",
          doc |-> CHOOSE c \in Categories : c.slug = slug /\ c.status = "published"]
    ELSE [kind |-> "null", doc |-> NoCategory]

(***************************************************************************)
(* Responses                                                               *)
(***************************************************************************)
NoRes == [op |-> "none"]

NULL == "null"

\* details of the 400 "Missing required fields" response
MissingDetails(b) ==
    [title       |-> IF Falsy(b.title) THEN "Title is required" ELSE NULL,
     description |-> IF Falsy(b.description) THEN "Description is required" ELSE NULL,
     category    |-> IF Falsy(b.category) THEN "Category is required" ELSE NULL,
     meta        |-> IF ~b.meta.present THEN "Meta information is required" ELSE NULL,
     mainImage   |-> IF ~b.mainImage THEN "Main image is required" ELSE NULL]

\* the required-field check without its description test
MissingRequiredNoDescription(b) ==
    \/ Falsy(b.title)
    \/ Falsy(b.category)
    \/ ~b.meta.present
    \/ ~b.mainImage

\* the condition of the required-field check
MissingRequired(b) ==
    \/ Falsy(b.title)
    \/ Falsy(b.description)
    \/ Falsy(b.category)
    \/ ~b.meta.present
    \/ ~b.mainImage

NoDetails == [title |-> NULL, description |-> NULL, category |-> NULL,
              meta |-> NULL, mainImage |-> NULL]

CreateRes(b, status, message, details, before) ==
    [op |-> "create", body |-> b, status |-> status, message |-> message,
     details |-> details, before |-> before]

(***************************************************************************)
(* POST / : create a blog post                                             *)
(***************************************************************************)
Idle == [op |-> "idle"]

\* the checks made before the first upload: a response, or "continue"
CreateValidate(b, before) ==
    IF MissingRequired(b)
    THEN CreateRes(b, 400, "Missing required fields", MissingDetails(b), before)
    ELSE IF ~b.meta.wf
    THEN CreateRes(b, 400, "Invalid meta format", NoDetails, before)
    ELSE IF Falsy(b.meta.val.meta_title) \/ Falsy(b.meta.val.meta_description)
    THEN CreateRes(b, 400, "Invalid meta format", NoDetails, before)
    ELSE IF CategoryFindById(b.category).kind = "throw"
    THEN CreateRes(b, 500, "Error creating blog post", NoDetails, before)
    ELSE IF CategoryFindById(b.category).kind = "null"
    THEN CreateRes(b, 400, "Invalid category ID", NoDetails, before)
    ELSE IF b.mainImageEdit = "malformed"
    THEN CreateRes(b, 500, "Error creating blog post", NoDetails, before)
    ELSE [op |-> "continue"]

Issue(idx) == [ev |-> "issue", idx |-> idx, url |-> NoUrl]
Done(idx, url) == [ev |-> "done", idx |-> idx, url |-> url]
Failed(idx) == [ev |-> "fail", idx |-> idx, url |-> NoUrl]

\* the handler up to `await cloudinary.uploader.upload(mainImage)`
CreateBegin(b, cap) ==
    /\ req.op = "idle"
    /\ CreateValidate(b, blogs).op = "continue" => clock < cap
    /\ destroyLog' = <<>>
    /\ UNCHANGED <<blogs, clock>>
    /\ LET v == CreateValidate(b, blogs) IN
       IF v.op = "continue"
       THEN /\ req' = [op |-> "create", pc |-> "main", body |-> b,
                       mainImageUrl |-> NoUrl, pending |-> {}]
            /\ uploadLog' = <<Issue(MainIdx)>>
            /\ res' = NoRes
       ELSE /\ req' = Idle
            /\ uploadLog' = <<>>
            /\ res' = v


\* JSON.parse(sections) / the Array.isArray check: "ok" with the descriptors,
\* or "invalid" (unparseable text, or a value that is no array)
ParseSections(sections) ==
    IF ~sections.present THEN [kind |-> "ok", items |-> <<>>]
    ELSE IF ~sections.wf \/ ~sections.arr THEN [kind |-> "invalid", items |-> <<>>]
    ELSE [kind |-> "ok", items |-> sections.items]

\* JSON.parse(tags) / the Array.isArray check
ParseTags(tags) ==
    IF ~tags.present THEN [kind |-> "ok", items |-> <<>>]
    ELSE IF ~tags.wf \/ ~tags.arr THEN [kind |-> "invalid", items |-> <<>>]
    ELSE [kind |-> "ok", items |-> tags.items]

\* req.files.section_images?.[index] is a file (index zero-based)
HasSectionImage(b, index) == index < b.nfiles

\* the sections whose callback throws "Missing image for section ..."
MissingImageIdx(b, items) ==
    { i \in 0 .. Len(items) - 1 :
        ~HasSectionImage(b, i) /\ items[i + 1].section_img = NoUrl }

\* the sections whose callback calls cloudinary.uploader.upload
UploadIdx(b, items) ==
    { i \in 0 .. Len(items) - 1 : HasSectionImage(b, i) }

\* the upload calls parsedSections.map(async ...) makes before the handler
\* awaits anything: every callback runs up to its first await, in index order
RECURSIVE IssueFrom(_, _, _)
IssueFrom(b, items, i) ==
    IF i >= Len(items) THEN <<>>
    ELSE (IF HasSectionImage(b, i) THEN <<Issue(i)>> ELSE <<>>)
         \o IssueFrom(b, items, i + 1)

\* the callbacks run from the last section to the first
RECURSIVE IssueDownFrom(_, _, _)
IssueDownFrom(b, items, i) ==
    IF i < 0 THEN <<>>
    ELSE (IF HasSectionImage(b, i) THEN <<Issue(i)>> ELSE <<>>)
         \o IssueDownFrom(b, items, i - 1)

IssueSectionUploadsReversed(b, items) == IssueDownFrom(b, items, Len(items) - 1)

IssueSectionUploads(b, items) == IssueFrom(b, items, 0)

\* the upload calls of the request that have been issued and not yet settled
InFlight(log) ==
    { i \in MainIdx .. MaxSections :
        /\ \E k \in 1 .. Len(log) : log[k].ev = "issue" /\ log[k].idx = i
        /\ ~\E k \in 1 .. Len(log) : log[k].ev \in {"done", "fail"} /\ log[k].idx = i }

\* the results taken in the order the uploads settled, not by position
ResultOfSettleOrder(log, index) ==
    SelectSeq(log, LAMBDA e : e.ev = "done" /\ e.idx # MainIdx)[index + 1].url

\* secure_url the upload of section `index` resolved with
ResultOf(log, index) ==
    LET k == CHOOSE k \in 1 .. Len(log) : log[k].ev = "done" /\ log[k].idx = index
    IN log[k].url

\* Promise.all(parsedSections.map(...)): the callbacks' values by position
ProcessedSections(b, items, log) ==
    [ i \in 1 .. Len(items) |->
        [section_img   |-> IF HasSectionImage(b, i - 1)
                           THEN ResultOf(log, i - 1)
                           ELSE items[i].section_img,
         section_title |-> items[i].section_title,
         order         |-> i - 1] ]

\* new Blog({...})
NewBlog(b, id, mainImageUrl, sections, tags) ==
    [id          |-> id,
     createdAt   |-> id,
     title       |-> b.title,
     description |-> b.description,
     tags        |-> tags,
     category    |-> b.category,
     featured    |-> (b.featured = "true"),
     status      |-> OrElse(b.status, "draft"),
     mainImage   |-> mainImageUrl,
     sections    |-> sections,
     meta        |-> b.meta.val]

\* the handler from the end of Promise.all to the response
CreateFinish(b, mainImageUrl, log) ==
    /\ req' = Idle
    /\ uploadLog' = log
    /\ UNCHANGED destroyLog
    /\ LET items == ParseSections(b.sections).items
           tags == ParseTags(b.tags)
       IN IF tags.kind = "invalid"
          THEN /\ res' = CreateRes(b, 400, "Invalid tags format", NoDetails, blogs)
               /\ UNCHANGED <<blogs, clock>>
          ELSE LET blog == NewBlog(b, clock + 1, mainImageUrl,
                                   ProcessedSections(b, items, log), tags.items)
               IN /\ blogs' = blogs \cup {blog}
                  /\ clock' = clock + 1
                  /\ res' = [op |-> "create", body |-> b, status |-> 201,
                             message |-> "", details |-> NoDetails,
                             before |-> blogs, blog |-> blog]

\* the main image upload resolves; the handler runs on to its next await
MainImageDone ==
    /\ req.op = "create"
    /\ req.pc = "main"
    /\ LET b == req.body
           url == UploadUrl("blog_images", MainImagePath)
           log1 == Append(uploadLog, Done(MainIdx, url))
           parsed == ParseSections(b.sections)
           log2 == log1 \o IssueSectionUploads(b, parsed.items)
       IN IF parsed.kind = "invalid"
          THEN /\ req' = Idle
               /\ uploadLog' = log1
               /\ res' = CreateRes(b, 400, "Invalid sections format", NoDetails, blogs)
               /\ UNCHANGED <<blogs, clock, destroyLog>>
          ELSE IF MissingImageIdx(b, parsed.items) # {}
          THEN /\ req' = Idle
               /\ uploadLog' = log2
               /\ res' = CreateRes(b, 500, "Error creating blog post", NoDetails, blogs)
               /\ UNCHANGED <<blogs, clock, destroyLog>>
          ELSE IF UploadIdx(b, parsed.items) = {}
          THEN CreateFinish(b, url, log2)
          ELSE /\ req' = [req EXCEPT !.pc = "sections", !.mainImageUrl = url,
                                     !.pending = UploadIdx(b, parsed.items)]
               /\ uploadLog' = log2
               /\ UNCHANGED <<blogs, clock, destroyLog, res>>

\* the main image upload rejects: caught, 500
MainImageFail ==
    /\ req.op = "create"
    /\ req.pc = "main"
    /\ req' = Idle
    /\ uploadLog' = Append(uploadLog, Failed(MainIdx))
    /\ res' = CreateRes(req.body, 500, "Error creating blog post", NoDetails, blogs)
    /\ UNCHANGED <<blogs, clock, destroyLog>>

\* the upload of one section image resolves; the last one completes Promise.all
SectionImageDone(i) ==
    /\ req.op = "create"
    /\ req.pc = "sections"
    /\ i \in req.pending
    /\ LET url == UploadUrl("blog_images/sections", SectionImagePath(i))
           log == Append(uploadLog, Done(i, url))
       IN IF req.pending = {i}
          THEN CreateFinish(req.body, req.mainImageUrl, log)
          ELSE /\ req' = [req EXCEPT !.pending = @ \ {i}]
               /\ uploadLog' = log
               /\ UNCHANGED <<blogs, clock, destroyLog, res>>

\* the upload of one section image rejects: Promise.all rejects, caught, 500
SectionImageFail(i) ==
    /\ req.op = "create"
    /\ req.pc = "sections"
    /\ i \in req.pending
    /\ req' = Idle
    /\ uploadLog' = Append(uploadLog, Failed(i))
    /\ res' = CreateRes(req.body, 500, "Error creating blog post", NoDetails, blogs)
    /\ UNCHANGED <<blogs, clock, destroyLog>>

(***************************************************************************)
(* DELETE /:id                                                             *)
(***************************************************************************)
\* Blog.findById / Blog.findOne by id over the collection
HasBlog(store, id) == \E x \in store : x.id = id
BlogById(store, id) == CHOOSE x \in store : x.id = id

\* section_img.split("/").pop().split(".")[0]: the last path segment without
\* its extension; the folder is dropped
PublicIdOf(url) == url.name

\* the destroy calls of the loop over blog.sections, in order
DestroyTargets(blog) ==
    LET withImg == SelectSeq(blog.sections, LAMBDA s : s.section_img # NoUrl)
    IN [ i \in 1 .. Len(withImg) |-> withImg[i].section_img ]

\* deleteOne without waiting for the loop
LoopDoneAtOnce(r) == TRUE

\* the loop is over: the handler is at `await blog.deleteOne()`
LoopDone(r) == r.cursor > Len(DestroyTargets(r.blog))

DeleteRes(id, status, before) ==
    [op |-> "delete", id |-> id, status |-> status, before |-> before]

DeleteBegin(id) ==
    /\ req.op = "idle"
    /\ uploadLog' = <<>>
    /\ destroyLog' = <<>>
    /\ UNCHANGED <<blogs, clock>>
    /\ IF ~HasBlog(blogs, id)
       THEN /\ req' = Idle
            /\ res' = DeleteRes(id, 404, blogs)
       ELSE /\ req' = [op |-> "delete", pc |-> "destroy",
                       blog |-> BlogById(blogs, id), cursor |-> 1]
            /\ res' = NoRes

\* one `await cloudinary.uploader.destroy(publicId)` resolves
DestroyDone ==
    /\ req.op = "delete"
    /\ ~LoopDone(req)
    /\ LET url == DestroyTargets(req.blog)[req.cursor] IN
       destroyLog' = Append(destroyLog,
                            [url |-> url, publicId |-> PublicIdOf(url), ok |-> TRUE,
                             stored |-> HasBlog(blogs, req.blog.id)])
    /\ req' = [req EXCEPT !.cursor = @ + 1]
    /\ UNCHANGED <<blogs, clock, uploadLog, res>>

\* one destroy call rejects: caught, 500, the handler ends
DestroyFail ==
    /\ req.op = "delete"
    /\ ~LoopDone(req)
    /\ LET url == DestroyTargets(req.blog)[req.cursor] IN
       destroyLog' = Append(destroyLog,
                            [url |-> url, publicId |-> PublicIdOf(url), ok |-> FALSE,
                             stored |-> HasBlog(blogs, req.blog.id)])
    /\ req' = Idle
    /\ res' = DeleteRes(req.blog.id, 500, blogs)
    /\ UNCHANGED <<blogs, clock, uploadLog>>

\* blog.deleteOne() and the 200 response
DeleteFinish ==
    /\ req.op = "delete"
    /\ LoopDone(req)
    /\ blogs' = { x \in blogs : x.id # req.blog.id }
    /\ req' = Idle
    /\ res' = DeleteRes(req.blog.id, 200, blogs)
    /\ UNCHANGED <<clock, uploadLog, destroyLog>>


(***************************************************************************)
(* PUT /:id                                                                *)
(***************************************************************************)
\* sectionImage.path of req.files[index]
FilePathUrl(index) == [folder |-> "files", name |-> SectionImagePath(index)]

UpdateRes(id, u, status, before) ==
    [op |-> "update", id |-> id, body |-> u, status |-> status, before |-> before]

\* JSON.parse(sections).map(...) with req.files, or blog.sections
UpdatedSections(u, blog) ==
    IF ~u.sections.present THEN blog.sections
    ELSE [ i \in 1 .. Len(u.sections.items) |->
             [section_img   |-> IF i - 1 < u.nfiles
                                THEN FilePathUrl(i - 1)
                                ELSE u.sections.items[i].section_img,
              section_title |-> u.sections.items[i].section_title,
              order         |-> i - 1] ]

\* the meta object assigned to blog.meta; meta is a string when it arrives as
\* one form field (then it has no meta_title property) and an object when it
\* arrives as meta[meta_title]=... fields
UpdatedMeta(u, blog) ==
    IF ~u.meta.isObject THEN blog.meta
    ELSE [meta_title       |-> OrElse(u.meta.val.meta_title, blog.meta.meta_title),
          meta_description |-> OrElse(u.meta.val.meta_description,
                                      blog.meta.meta_description),
          meta_keywords    |-> IF u.meta.val.meta_keywords.present
                               THEN u.meta.val.meta_keywords.items
                               ELSE blog.meta.meta_keywords]

\* an expression of the assignments throws: JSON.parse of sections, of tags or
\* of meta_keywords, or a property read on an undefined meta
UpdateThrows(u) ==
    \/ u.sections.present /\ (~u.sections.wf \/ ~u.sections.arr)
    \/ u.tags.present /\ ~u.tags.wf
    \/ ~u.meta.present
    \/ u.meta.isObject /\ u.meta.val.meta_keywords.present
                       /\ ~u.meta.val.meta_keywords.wf

\* the document after the assignments
UpdatedBlog(u, blog) ==
    [blog EXCEPT
       !.title       = OrElse(u.title, blog.title),
       !.description = OrElse(u.description, blog.description),
       !.tags        = IF u.tags.present THEN u.tags.items ELSE blog.tags,
       !.category    = OrElse(u.category, blog.category),
       !.featured    = (u.featured = "true"),
       !.status      = OrElse(u.status, blog.status),
       !.sections    = UpdatedSections(u, blog),
       !.meta        = UpdatedMeta(u, blog)]

UpdateBlog(id, u) ==
    /\ req.op = "idle"
    /\ uploadLog' = <<>>
    /\ destroyLog' = <<>>
    /\ UNCHANGED <<clock, req>>
    /\ IF ~HasBlog(blogs, id)
       THEN /\ res' = UpdateRes(id, u, 404, blogs)
            /\ UNCHANGED blogs
       ELSE IF ~Falsy(u.category) /\ CategoryFindById(u.category).kind = "throw"
       THEN /\ res' = UpdateRes(id, u, 500, blogs)
            /\ UNCHANGED blogs
       ELSE IF ~Falsy(u.category) /\ CategoryFindById(u.category).kind = "null"
       THEN /\ res' = UpdateRes(id, u, 400, blogs)
            /\ UNCHANGED blogs
       ELSE IF UpdateThrows(u)
       THEN /\ res' = UpdateRes(id, u, 500, blogs)
            /\ UNCHANGED blogs
       ELSE /\ blogs' = { x \in blogs : x.id # id }
                        \cup {UpdatedBlog(u, BlogById(blogs, id))}
            /\ res' = UpdateRes(id, u, 200, blogs)

(***************************************************************************)
(* GET /category/id/:categoryId and GET /category/:slug                    *)
(***************************************************************************)
DefaultPage == 1
DefaultLimit == 10

\* parseInt(req.query.x) || dflt : an absent parameter parses to NaN
ParseIntOr(q, dflt) == IF ~q.present \/ q.n = 0 THEN dflt ELSE q.n

\* Math.floor in place of Math.ceil
FloorDiv(total, limit) == total \div limit

\* Math.ceil(total / limit)
CeilDiv(total, limit) == (total + limit - 1) \div limit

\* the query without its status filter
MatchingAnyStatus(store, categoryId) ==
    { x \in store : x.category = categoryId }

\* Blog.countDocuments / Blog.find with {category, status: "published"}
Matching(store, categoryId) ==
    { x \in store : x.category = categoryId /\ x.status = "published" }

\* .sort({createdAt: -1})
RECURSIVE SortNewestFirst(_)
SortNewestFirst(set) ==
    IF set = {} THEN <<>>
    ELSE LET newest == CHOOSE x \in set : \A y \in set : y.createdAt <= x.createdAt
         IN <<newest>> \o SortNewestFirst(set \ {newest})

\* .skip(skip).limit(limit)
SkipLimit(list, skip, limit) ==
    SubSeq(list, skip + 1, IF skip + limit < Len(list) THEN skip + limit ELSE Len(list))

\* the page of the listing
PageOf(store, categoryId, page, limit) ==
    SkipLimit(SortNewestFirst(Matching(store, categoryId)), (page - 1) * limit, limit)

ListRes(op, ref, status, page, limit, list, total, pages, before) ==
    [op |-> op, ref |-> ref, status |-> status, page |-> page, limit |-> limit,
     blogs |-> list, total |-> total, pages |-> pages, before |-> before]

ListOk(op, ref, categoryId, page, limit) ==
    ListRes(op, ref, 200, page, limit,
            PageOf(blogs, categoryId, page, limit),
            Cardinality(Matching(blogs, categoryId)),
            CeilDiv(Cardinality(Matching(blogs, categoryId)), limit),
            blogs)

GetByCategoryId(categoryId, qpage, qlimit) ==
    /\ req.op = "idle"
    /\ uploadLog' = <<>>
    /\ destroyLog' = <<>>
    /\ UNCHANGED <<blogs, clock, req>>
    /\ LET page == ParseIntOr(qpage, DefaultPage)
           limit == ParseIntOr(qlimit, DefaultLimit)
       IN IF ~ObjectIdIsValid(categoryId)
          THEN res' = ListRes("byId", categoryId, 400, page, limit, <<>>, 0, 0, blogs)
          ELSE IF CategoryFindById(categoryId).kind = "null"
          THEN res' = ListRes("byId", categoryId, 404, page, limit, <<>>, 0, 0, blogs)
          ELSE res' = ListOk("byId", categoryId, categoryId, page, limit)

GetByCategorySlug(slug, qpage, qlimit) ==
    /\ req.op = "idle"
    /\ uploadLog' = <<>>
    /\ destroyLog' = <<>>
    /\ UNCHANGED <<blogs, clock, req>>
    /\ LET page == ParseIntOr(qpage, DefaultPage)
           limit == ParseIntOr(qlimit, DefaultLimit)
           category == CategoryFindPublishedBySlug(slug)
       IN IF category.kind = "null"
          THEN res' = ListRes("bySlug", slug, 404, page, limit, <<>>, 0, 0, blogs)
          ELSE res' = ListOk("bySlug", slug, category.doc.id, page, limit)

(***************************************************************************)
(* Requests                                                                *)
(***************************************************************************)
JsonAbsent == [present |-> FALSE, wf |-> TRUE, arr |-> TRUE, items |-> <<>>]
JsonMalformed == [present |-> TRUE, wf |-> FALSE, arr |-> FALSE, items |-> <<>>]
JsonNoArray == [present |-> TRUE, wf |-> TRUE, arr |-> FALSE, items |-> <<>>]
JsonArray(items) == [present |-> TRUE, wf |-> TRUE, arr |-> TRUE, items |-> items]

MetaVal(t, d) == [meta_title |-> t, meta_description |-> d, meta_keywords |-> <<>>]
MetaAbsent == [present |-> FALSE, wf |-> TRUE, val |-> MetaVal("", "")]
MetaMalformed == [present |-> TRUE, wf |-> FALSE, val |-> MetaVal("", "")]
MetaIncomplete == [present |-> TRUE, wf |-> TRUE, val |-> MetaVal("T", "")]
MetaOk == [present |-> TRUE, wf |-> TRUE, val |-> MetaVal("T", "D")]

SectionItems ==
    { [section_img |-> NoUrl, section_title |-> "p"],
      [section_img |-> ExternalUrl, section_title |-> "q"] }

SectionLists ==
    UNION { [1 .. n -> SectionItems] : n \in 0 .. MaxSections }

\* a complete, valid create request
BaseBody ==
    [title |-> "A", description |-> "d", category |-> "c1", meta |-> MetaOk,
     mainImage |-> TRUE, mainImageEdit |-> ABSENT, featured |-> ABSENT,
     status |-> ABSENT, tags |-> JsonAbsent, sections |-> JsonAbsent, nfiles |-> 0]

\* create requests that differ in which required fields are present
RequiredBodies ==
    { [BaseBody EXCEPT !.title = t, !.description = d, !.category = c,
                       !.meta = m, !.mainImage = i] :
        t \in {ABSENT, "A"}, d \in {ABSENT, "d"}, c \in {ABSENT, "c1"},
        m \in {MetaAbsent, MetaOk}, i \in BOOLEAN }

\* create requests with a bad category or meta, with a section image attached
FormatBodies ==
    { [BaseBody EXCEPT !.title = t, !.category = c, !.meta = m,
                       !.sections = JsonArray(<<[section_img |-> NoUrl,
                                                 section_title |-> "p"]>>),
                       !.nfiles = 1] :
        t \in {ABSENT, "A"}, c \in {"c1", "c9", "zz"},
        m \in {MetaMalformed, MetaIncomplete, MetaOk} }

\* valid create requests that differ in sections and section images
SectionBodies ==
    { [BaseBody EXCEPT !.sections = s, !.nfiles = n] :
        s \in {JsonMalformed, JsonNoArray} \cup { JsonArray(l) : l \in SectionLists },
        n \in 0 .. MaxSections }

\* valid create requests that differ in the remaining fields
OtherBodies ==
    { [BaseBody EXCEPT !.tags = t, !.mainImageEdit = e] :
        t \in {JsonAbsent, JsonMalformed, JsonNoArray}, e \in {ABSENT, "malformed"} }

CreateBodies == RequiredBodies \cup FormatBodies \cup SectionBodies \cup OtherBodies

\* create requests of the update scenario
EditableBodies ==
    { [BaseBody EXCEPT !.featured = f, !.tags = t] :
        f \in {ABSENT, "true"}, t \in {JsonAbsent, JsonArray(<<"x">>)} }

\* create requests of the listing: category and status vary
ListingBodies ==
    { [BaseBody EXCEPT !.category = c, !.status = s] :
        c \in {"c1", "c2"}, s \in {ABSENT, "published"} }

KeywordsAbsent == [present |-> FALSE, wf |-> TRUE, items |-> <<>>]
UMetaAbsent == [present |-> FALSE, isObject |-> FALSE,
                val |-> [meta_title |-> ABSENT, meta_description |-> ABSENT,
                         meta_keywords |-> KeywordsAbsent]]
UMetaText == [UMetaAbsent EXCEPT !.present = TRUE]
UMetaObject == [present |-> TRUE, isObject |-> TRUE,
                val |-> [meta_title |-> "T2", meta_description |-> ABSENT,
                         meta_keywords |-> KeywordsAbsent]]

\* an update request without any field
BaseUpdate ==
    [title |-> ABSENT, description |-> ABSENT, tags |-> JsonAbsent,
     category |-> ABSENT, featured |-> ABSENT, status |-> ABSENT,
     sections |-> JsonAbsent, meta |-> UMetaAbsent, nfiles |-> 0]

UpdateBodies ==
    { [BaseUpdate EXCEPT !.title = t, !.meta = m, !.featured = f] :
        t \in {ABSENT, "B"}, m \in {UMetaAbsent, UMetaText, UMetaObject},
        f \in {ABSENT, "true"} }
    \cup
    { [BaseUpdate EXCEPT !.meta = UMetaText, !.category = c] : c \in {"c9", "zz"} }
    \cup
    { [BaseUpdate EXCEPT !.meta = UMetaText, !.tags = JsonMalformed] }
    \cup
    { [BaseUpdate EXCEPT !.meta = UMetaText, !.nfiles = n,
                         !.sections = JsonArray(<<[section_img |-> NoUrl,
                                                   section_title |-> "q"]>>)] :
        n \in 0 .. 1 }

ListingUpdates ==
    { [BaseUpdate EXCEPT !.meta = UMetaText, !.status = s] :
        s \in {"draft", "published"} }
    \cup { [BaseUpdate EXCEPT !.meta = UMetaText, !.category = "c2"] }

BlogIds == 1 .. MaxBlogs + 1
ListedIds == 1 .. MaxListed
CategoryRefs == {"c1", "c2", "c9", "zz"}
Slugs == {"tech", "news", "none"}
QueryParam(max) == {[present |-> FALSE, n |-> 0]}
                   \cup { [present |-> TRUE, n |-> k] : k \in 1 .. max }

(***************************************************************************)
(* Specifications                                                          *)
(***************************************************************************)
Init ==
    /\ blogs = {}
    /\ clock = 0
    /\ req = Idle
    /\ uploadLog = <<>>
    /\ destroyLog = <<>>
    /\ res = NoRes

\* create and delete requests with their Asset Uploader calls
Next ==
    \/ \E b \in CreateBodies : CreateBegin(b, MaxBlogs)
    \/ MainImageDone
    \/ MainImageFail
    \/ \E i \in 0 .. MaxSections - 1 : SectionImageDone(i)
    \/ \E i \in 0 .. MaxSections - 1 : SectionImageFail(i)
    \/ \E id \in BlogIds : DeleteBegin(id)
    \/ DestroyDone
    \/ DestroyFail
    \/ DeleteFinish

Spec == Init /\ [][Next]_vars

\* update requests on blogs that create requests stored
NextUpdate ==
    \/ \E b \in EditableBodies : CreateBegin(b, MaxBlogs)
    \/ MainImageDone
    \/ MainImageFail
    \/ \E id \in BlogIds, u \in UpdateBodies : UpdateBlog(id, u)

SpecUpdate == Init /\ [][NextUpdate]_vars

\* the listings over a store that create and update requests fill
NextQuery ==
    \/ \E b \in ListingBodies : CreateBegin(b, MaxListed)
    \/ MainImageDone
    \/ MainImageFail
    \/ \E id \in ListedIds, u \in ListingUpdates : UpdateBlog(id, u)
    \/ \E c \in CategoryRefs, p \in QueryParam(MaxPage), l \in QueryParam(MaxLimit) :
          GetByCategoryId(c, p, l)
    \/ \E s \in Slugs, p \in QueryParam(MaxPage), l \in QueryParam(MaxLimit) :
          GetByCategorySlug(s, p, l)

SpecQuery == Init /\ [][NextQuery]_vars


(***************************************************************************)
(* Properties                                                              *)
(***************************************************************************)
IsCreateRes == res.op = "create"
IsListRes == res.op \in {"byId", "bySlug"}

\* C1: a create request without title, description, category or meta is
\* answered 400 "Missing required fields", the details carry a message for
\* exactly the missing fields (null for the supplied ones), and the store is
\* as it was before the request.
C1_MissingFieldRejected ==
    (/\ IsCreateRes
     /\ \/ res.body.title = ABSENT
        \/ res.body.description = ABSENT
        \/ res.body.category = ABSENT
        \/ ~res.body.meta.present)
    => /\ res.status = 400
       /\ res.message = "Missing required fields"
       /\ (res.details.title # NULL) <=> (res.body.title = ABSENT)
       /\ (res.details.description # NULL) <=> (res.body.description = ABSENT)
       /\ (res.details.category # NULL) <=> (res.body.category = ABSENT)
       /\ (res.details.meta # NULL) <=> ~res.body.meta.present
       /\ (res.details.mainImage # NULL) <=> ~res.body.mainImage
       /\ blogs = res.before

\* a rejected request that lacks the description only, over a store with a blog
C1_Witness ==
    /\ IsCreateRes
    /\ res.body.description = ABSENT
    /\ res.body.title # ABSENT
    /\ res.body.category # ABSENT
    /\ res.body.meta.present
    /\ res.status = 400
    /\ res.details.description # NULL
    /\ res.details.title = NULL
    /\ blogs # {}

\* C2: a create request that has every required field and a valid meta, and
\* whose category id does not resolve to a Category, is answered 400 "Invalid
\* category ID"; nothing is stored and no upload call has been made.
C2_InvalidReference ==
    (/\ IsCreateRes
     /\ ~MissingRequired(res.body)
     /\ res.body.meta.wf
     /\ res.body.meta.val.meta_title # ""
     /\ res.body.meta.val.meta_description # ""
     /\ ~\E c \in Categories : c.id = res.body.category)
    => /\ res.status = 400
       /\ res.message = "Invalid category ID"
       /\ blogs = res.before
       /\ uploadLog = <<>>

\* C3: the blog a create request stores has one section per descriptor, in the
\* descriptors' order, with order = position (zero-based); a section with a
\* file at its position carries the URL the upload of that file returned, in
\* whatever order the uploads completed, the others keep their own URL.
C3_SectionsPositional ==
    (IsCreateRes /\ res.status = 201)
    => LET items == res.body.sections.items
           stored == res.blog.sections
       IN /\ res.blog \in blogs
          /\ Len(stored) = Len(items)
          /\ \A i \in 1 .. Len(items) :
               /\ stored[i].order = i - 1
               /\ stored[i].section_title = items[i].section_title
               /\ IF i - 1 < res.body.nfiles
                  THEN /\ stored[i].section_img
                            = UploadUrl("blog_images/sections", SectionImagePath(i - 1))
                       /\ \E k \in 1 .. Len(uploadLog) :
                            uploadLog[k] = Done(i - 1, stored[i].section_img)
                  ELSE stored[i].section_img = items[i].section_img

\* a blog of two sections with two files whose second upload completed first
C3_Witness ==
    /\ IsCreateRes
    /\ res.status = 201
    /\ Len(res.blog.sections) = 2
    /\ res.body.nfiles = 2
    /\ \E k1, k2 \in 1 .. Len(uploadLog) :
         /\ uploadLog[k1].ev = "done" /\ uploadLog[k1].idx = 1
         /\ uploadLog[k2].ev = "done" /\ uploadLog[k2].idx = 0
         /\ k1 < k2

\* the update request carries a title and nothing else
OnlyTitle(u) ==
    /\ u.title # ABSENT
    /\ u.description = ABSENT
    /\ ~u.tags.present
    /\ u.category = ABSENT
    /\ u.featured = ABSENT
    /\ u.status = ABSENT
    /\ ~u.sections.present
    /\ ~u.meta.present
    /\ u.nfiles = 0

\* C4: an update of an existing blog that supplies only a title succeeds; the
\* blog then has the new title and the tags, sections, meta, category, status
\* and featured it had before.
C4_TitleOnlyUpdate ==
    (res.op = "update" /\ HasBlog(res.before, res.id) /\ OnlyTitle(res.body))
    => /\ res.status = 200
       /\ HasBlog(blogs, res.id)
       /\ LET old == BlogById(res.before, res.id)
              new == BlogById(blogs, res.id)
          IN /\ new.title = res.body.title
             /\ new.tags = old.tags
             /\ new.sections = old.sections
             /\ new.meta = old.meta
             /\ new.category = old.category
             /\ new.status = old.status
             /\ new.featured = old.featured

\* the image URLs of a blog's sections, in section order
SectionUrls(blog) ==
    LET withImg == SelectSeq(blog.sections, LAMBDA x : x.section_img # NoUrl)
    IN [ i \in 1 .. Len(withImg) |-> withImg[i].section_img ]

\* C5 as stated: a completed delete has made as many deletion calls as the
\* blog's sections reference distinct URLs.
C5_OneCallPerDistinctUrl ==
    (res.op = "delete" /\ res.status = 200)
    => LET urls == SectionUrls(BlogById(res.before, res.id))
       IN Len(destroyLog) = Cardinality({ urls[i] : i \in 1 .. Len(urls) })

\* C5: a delete that removes a blog has made one deletion call per section
\* that has an image URL, in section order, each for the asset id of that URL
\* and each while the document was still stored; the document is stored as
\* long as the loop runs.
C5_OneCallPerSection ==
    /\ (req.op = "delete") => HasBlog(blogs, req.blog.id)
    /\ (res.op = "delete" /\ res.status = 200)
       => LET urls == SectionUrls(BlogById(res.before, res.id))
          IN /\ ~HasBlog(blogs, res.id)
             /\ Len(destroyLog) = Len(urls)
             /\ \A k \in 1 .. Len(urls) :
                  /\ destroyLog[k].url = urls[k]
                  /\ destroyLog[k].publicId = urls[k].name
                  /\ destroyLog[k].stored

\* a blog of two sections with different URLs was deleted after two calls
C5_Witness ==
    /\ res.op = "delete"
    /\ res.status = 200
    /\ Len(destroyLog) = 2
    /\ destroyLog[1].url # destroyLog[2].url
    /\ ~HasBlog(blogs, res.id)

\* C6: a delete request for an existing blog one of whose deletion calls
\* failed has removed the blog all the same.
C6_BestEffort ==
    (/\ res.op = "delete"
     /\ HasBlog(res.before, res.id)
     /\ \E k \in 1 .. Len(destroyLog) : ~destroyLog[k].ok)
    => ~HasBlog(blogs, res.id)

\* the category a listing response is about
ListedCategory ==
    IF res.op = "byId" THEN res.ref
    ELSE (CHOOSE c \in Categories : c.slug = res.ref).id

\* the published blogs of a category
PublishedIn(categoryId) ==
    { x \in blogs : x.category = categoryId /\ x.status = "published" }

Min(a, b) == IF a < b THEN a ELSE b

\* C7: a listing (by id or by slug) that finds its category returns total =
\* the number of published blogs of the category, pages = ceil(total/limit),
\* and as items the blogs at positions (page-1)*limit .. min(page*limit,
\* total)-1 of the newest-first order; over the store as it is, the pages
\* 1..pages hold every published blog of the category exactly once.
C7_Pagination ==
    (IsListRes /\ res.status = 200)
    => LET M == PublishedIn(ListedCategory)
           first == (res.page - 1) * res.limit
           last == Min(res.page * res.limit, Cardinality(M))
       IN /\ res.page >= 1
          /\ res.limit >= 1
          /\ res.total = Cardinality(M)
          /\ res.pages * res.limit >= res.total
          /\ (res.pages - 1) * res.limit < res.total \/ (res.pages = 0 /\ res.total = 0)
          /\ Len(res.blogs) = (IF last > first THEN last - first ELSE 0)
          /\ \A j \in 1 .. Len(res.blogs) :
               /\ res.blogs[j] \in M
               /\ Cardinality({ y \in M : y.createdAt > res.blogs[j].createdAt })
                    = first + j - 1
          /\ \A x \in M :
               Cardinality({ pj \in (1 .. res.pages) \X (1 .. res.limit) :
                   /\ pj[2] <= Len(PageOf(blogs, ListedCategory, pj[1], res.limit))
                   /\ PageOf(blogs, ListedCategory, pj[1], res.limit)[pj[2]] = x }) = 1

\* three published blogs, limit 2: page 2 of 2 holds the oldest one
C7_Witness ==
    /\ res.op = "bySlug"
    /\ res.status = 200
    /\ res.total = 3
    /\ res.limit = 2
    /\ res.page = 2
    /\ res.pages = 2
    /\ Len(res.blogs) = 1

\* C8: every blog a listing returns is published and of the category asked
\* for; a listing by the slug of a category that is not published is answered
\* 404 without blogs.
C8_PublishedOnly ==
    IsListRes
    => /\ \A j \in 1 .. Len(res.blogs) :
            /\ res.blogs[j].status = "published"
            /\ res.blogs[j].category = ListedCategory
            /\ res.blogs[j] \in blogs
       /\ (res.op = "bySlug"
           /\ ~\E c \in Categories : c.slug = res.ref /\ c.status = "published")
          => (res.status = 404 /\ res.blogs = <<>>)

\* a listing that returns a blog while the category also has a draft and
\* another category has a published blog
C8_Witness ==
    /\ IsListRes
    /\ res.status = 200
    /\ Len(res.blogs) >= 1
    /\ \E x \in blogs : x.category = ListedCategory /\ x.status = "draft"
    /\ \E x \in blogs : x.category # ListedCategory /\ x.status = "published"

\* C9: a create request that passes the checks and whose main image was
\* uploaded, with a section that has neither a file at its position nor a URL,
\* is answered 400 and nothing is stored.
C9_MissingSectionAsset400 ==
    (/\ IsCreateRes
     /\ \E k \in 1 .. Len(uploadLog) : uploadLog[k].ev = "done" /\ uploadLog[k].idx = MainIdx
     /\ res.body.sections.present /\ res.body.sections.wf /\ res.body.sections.arr
     /\ \E i \in 1 .. Len(res.body.sections.items) :
          i - 1 >= res.body.nfiles /\ res.body.sections.items[i].section_img = NoUrl)
    => /\ res.status = 400
       /\ blogs = res.before

====
